---- MODULE Spec2Model ----
(***************************************************************************)
(* Parallel block transaction executor: FIFO resource locks, the           *)
(* access-list lock set, the bounded task group and processParallel.       *)
(*                                                                         *)
(* The source tree holds two versions of FIFOLocker.  The state variable   *)
(* variant says which one is built:                                        *)
(*   "part_006"  internal mutex, dequeue by txQueue[0:], Reserve unchecked *)
(*   "part_005"  no mutex, dequeue by txQueue[1:], Reserve panics on head  *)
(***************************************************************************)
EXTENDS Integers, Sequences, FiniteSets, TLC

\* ------------------------------------------------------------------ bounds
NumTx == 2          \* transactions in a block
MaxListLen == 2     \* access tuples per transaction (TestTxLocker blocks)
ProcListLen == 1    \* access tuples per transaction (processParallel blocks)
NumHashes == 3      \* hashes h0..hn on the single lock of TestFIFOLocker
MaxWorkers == 2     \* BoundedGroup: numWorkers ranges over 1..MaxWorkers
MaxPending == 1     \* BoundedGroup: maxPendingTasks ranges over 0..MaxPending
MaxTasks == 3       \* BoundedGroup: functions submitted with Go
UintBits == 3       \* width of the machine word standing for uint64
MaxTxGas == 2       \* result.UsedGas of a transaction ranges over 1..MaxTxGas
MaxCallers == 2     \* goroutines calling one GasPool
MaxViewOps == 2     \* calls each transaction-scoped view makes

Addrs == {"a1", "a2"}
Txs == 1..NumTx
NoTx == 0
Hashes == 1..(IF NumTx + 1 > NumHashes THEN NumTx + 1 ELSE NumHashes)
Variants == {"part_005", "part_006"}

\* math.MaxUint64 and uint64 addition at the modelled word width
MaxUint64 == 2^UintBits - 1
Add64(a, b) == (a + b) % (MaxUint64 + 1)

\* All access lists of at most n entries (any order, repeats allowed).
AccessLists(n) == UNION {[1..k -> Addrs] : k \in 0..n}

VARIABLES
  variant,       \* which FIFOLocker source is built
  driver,        \* "TestFIFOLocker", "TestTxLocker" or "processParallel"
  accessList,    \* tx -> its access list (sequence of addresses)
  addressLocks,  \* AccessListLocker.addressLocks: address -> FIFOLocker
  pc,            \* tx -> position of its goroutine
  idx,           \* tx -> index of the access tuple its loop is at
  tmp,           \* tx -> operands evaluated by Unlock's tuple assignment
  aborted,       \* the process died (panic or fatal runtime error)
  grants,        \* address -> hashes in the order FIFOLocker.Lock returned
  store,         \* shared StateDB: address -> slot value
  activeCtx,     \* StateDB.txStateContext: the tx whose context is installed
  logs,          \* StateDB.logs: tx hash -> logs added under that hash
  rd,            \* tx -> value its last GetState returned
  nops,          \* tx -> number of state-store operations it has performed
  receipt,       \* tx -> receipt built by applyTransaction (task local)
  receipts,      \* processParallel's receipts slice
  txLogs,        \* processParallel's txLogs slice
  taskErr,       \* tx -> error its task returned
  egErr,         \* errgroup: the first error recorded
  mainPc,        \* processParallel: "wait" or "returned"
  ret,           \* processParallel's return values
  gasLimit,      \* header.GasLimit
  txGas,         \* tx -> result.UsedGas of its execution
  usedGas        \* *usedGas, the block's atomically updated counter

lockerVars == <<variant, driver, accessList, addressLocks, pc, idx, tmp, aborted, grants>>
procVars == <<store, activeCtx, logs, rd, nops, receipt, receipts, txLogs, taskErr, egErr, mainPc, ret,
              gasLimit, txGas, usedGas>>

Tasks == DOMAIN accessList

VARIABLES
  numWorkers,    \* BoundedGroup: capacity of the workers channel
  maxPending,    \* BoundedGroup: capacity of the tasks channel
  withCtx,       \* built by NewBoundedErrGroupWithContext (cancel is set)
  taskFns,       \* the error each submitted function returns, in Go order
  gpc,           \* the submitting goroutine: "go", "send", "wait", "join", "returned"
  goIdx,         \* index of the function the current Go call submits
  workers,       \* number of tokens in the workers channel
  tasks,         \* the tasks channel: queued function indices
  closer,        \* the closer channel is closed
  taskWG,        \* taskWG counter
  workerWG,      \* workerWG counter
  wpc,           \* worker -> "unstarted", "select", "run", "report", "exited"
  wfn,           \* worker -> index of the function it is running, or 0
  werr,          \* worker -> the error its last function returned
  ran,           \* functions that have run to completion
  gerr,          \* g.err
  errOnce,       \* g.errOnce has fired
  ctxDone,       \* the derived context is cancelled
  gret           \* what Wait returned

groupVars == <<numWorkers, maxPending, withCtx, taskFns, gpc, goIdx, workers, tasks, closer,
               taskWG, workerWG, wpc, wfn, werr, ran, gerr, errOnce, ctxDone, gret>>

VARIABLES
  gpGas,         \* GasPool.gas
  gpLock,        \* GasPool.lock: the caller that holds it, or NoTx
  gpInit,        \* the pool's value before the calls
  poolCalls,     \* caller -> the call it makes: [op, amount]
  ppc,           \* caller -> "call", "locked", "write", "returned"
  pres           \* caller -> what its call returned

poolVars == <<gpGas, gpLock, gpInit, poolCalls, ppc, pres>>

VARIABLES
  sharedLock,    \* the mutex shared by the views: the view holding it, or NoTx
  vpc,           \* view -> "idle", "locked", "delegated"
  vop,           \* view -> the operation it is calling
  vleft,         \* view -> calls it has still to make
  txContext      \* view -> its txStateContext: refund counter and journal

viewVars == <<sharedLock, vpc, vop, vleft, txContext>>

VARIABLES
  errsErr,       \* Errs.Err: "nil" or the stored error
  rwReaders,     \* Errs.rw: number of read locks held
  rwWriter,      \* Errs.rw: the caller holding or waiting for the write lock, or NoTx
  rwFatal,       \* the runtime stopped the program: RUnlock of an unlocked RWMutex
  apc,           \* caller of Add -> where it is in Add
  aarg           \* caller of Add -> the error it passes

errsVars == <<errsErr, rwReaders, rwWriter, rwFatal, apc, aarg>>

\* The components that are also run on their own
compVars == <<poolVars, viewVars, errsVars>>

\* ------------------------------------------------------- FIFOLocker (pure)
HasMutex(v) == v = "part_006"
ReserveChecksHead(v) == v = "part_005"

NoGates == [h \in Hashes |-> "none"]

\* The map has no entry for the address: a nil *FIFOLocker.  No hash is its
\* head and none has a gate, so every call on it ends in a panic.
NoLocker == [exists |-> FALSE, headTx |-> NoTx, txQueue |-> <<>>, txLocks |-> NoGates, lock |-> NoTx]

\* (NewFIFOLockerNoHead: the constructor leaves headTx at its zero value.)
NewFIFOLockerNoHead(head) ==
  [exists |-> TRUE, headTx |-> NoTx, txQueue |-> <<>>, txLocks |-> NoGates, lock |-> NoTx]

NewFIFOLocker(head) ==
  [exists |-> TRUE, headTx |-> head, txQueue |-> <<>>, txLocks |-> NoGates, lock |-> NoTx]

\* Reserve without the lock.Lock() on the fresh gate.
ReserveGateOpen(f, txHash) ==
  [f EXCEPT !.txQueue = Append(@, txHash), !.txLocks[txHash] = "unlocked"]

\* Reserve appends the hash and stores a fresh gate that is already locked.
Reserve(f, txHash) ==
  [f EXCEPT !.txQueue = Append(@, txHash), !.txLocks[txHash] = "locked"]

ReservePanics(f, txHash, v) == ReserveChecksHead(v) /\ txHash = f.headTx

\* The queue left by Unlock's dequeue: txQueue[0:] or txQueue[1:].
DequeueRest(q, v) ==
  IF v = "part_006" THEN SubSeq(q, 1, Len(q)) ELSE SubSeq(q, 2, Len(q))

\* --------------------------------------------------- NewAccessListLocker
RECURSIVE BuildLocks(_, _, _, _, _)
BuildLocks(al, v, t, k, acc) ==
  IF acc.panicked \/ t > Len(al) THEN acc
  ELSE IF k > Len(al[t]) THEN BuildLocks(al, v, t + 1, 1, acc)
  ELSE LET a == al[t][k]
           f == acc.locks[a]
       IN IF f.exists
          THEN IF ReservePanics(f, t, v)
               THEN [acc EXCEPT !.panicked = TRUE]
               ELSE BuildLocks(al, v, t, k + 1, [acc EXCEPT !.locks[a] = Reserve(f, t)])
          ELSE BuildLocks(al, v, t, k + 1, [acc EXCEPT !.locks[a] = NewFIFOLocker(t)])

\* (NewAccessListLockerReversed: the pass runs over the block backwards, so
\* the last transaction naming an address becomes the head.)
MirrorLock(f, n) ==
  IF ~f.exists THEN f
  ELSE [f EXCEPT !.headTx = n + 1 - @,
                 !.txQueue = [i \in 1..Len(@) |-> n + 1 - @[i]],
                 !.txLocks = [h \in Hashes |-> IF h \in 1..n THEN f.txLocks[n + 1 - h]
                                               ELSE "none"]]

NewAccessListLockerReversed(al, v) ==
  LET n == Len(al)
      built == BuildLocks([t \in 1..n |-> al[n + 1 - t]], v, 1, 1,
                          [panicked |-> FALSE, locks |-> [a \in Addrs |-> NoLocker]])
  IN [built EXCEPT !.locks = [a \in Addrs |-> MirrorLock(built.locks[a], n)]]

NewAccessListLocker(al, v) ==
  BuildLocks(al, v, 1, 1, [panicked |-> FALSE, locks |-> [a \in Addrs |-> NoLocker]])

\* ------------------------------------------------------------ task helpers
CurAddr(t) == accessList[t][idx[t]]
NoTmp == [head |-> NoTx, queue |-> <<>>]

LockEntryPc(v) == IF HasMutex(v) THEN "lk_enter" ELSE "lk_check"
UnlockEntryPc(v) == IF HasMutex(v) THEN "ul_enter" ELSE "ul_check"

\* Where a task goes when AccessListLocker.Lock / Unlock has returned.
AfterLockPc(d) == IF d = "processParallel" THEN "as_message" ELSE "unlock"
AfterUnlockPc(d) == IF d = "processParallel" THEN "set_receipt" ELSE "done"

StartPc(al, v, d, t) == IF Len(al[t]) = 0 THEN AfterLockPc(d) ELSE LockEntryPc(v)

\* FIFOLocker.Lock returned for the current tuple: next tuple, or Lock(tx) returns.
LockReturned(t) ==
  IF idx[t] < Len(accessList[t])
  THEN /\ pc' = [pc EXCEPT ![t] = LockEntryPc(variant)]
       /\ idx' = [idx EXCEPT ![t] = @ + 1]
  ELSE /\ pc' = [pc EXCEPT ![t] = AfterLockPc(driver)]
       /\ idx' = [idx EXCEPT ![t] = 0]

UnlockReturned(t) ==
  IF idx[t] < Len(accessList[t])
  THEN /\ pc' = [pc EXCEPT ![t] = UnlockEntryPc(variant)]
       /\ idx' = [idx EXCEPT ![t] = @ + 1]
  ELSE /\ pc' = [pc EXCEPT ![t] = AfterUnlockPc(driver)]
       /\ idx' = [idx EXCEPT ![t] = 0]

\* ------------------------------------------------------- FIFOLocker.Lock
\* f.lock.Lock()
FLockAcquire(t) ==
  /\ t \in Tasks /\ ~aborted /\ pc[t] = "lk_enter"
  /\ addressLocks[CurAddr(t)].lock = NoTx
  /\ addressLocks' = [addressLocks EXCEPT ![CurAddr(t)].lock = t]
  /\ pc' = [pc EXCEPT ![t] = "lk_check"]
  /\ UNCHANGED <<compVars, groupVars, procVars, variant, driver, accessList, idx, tmp, aborted, grants>>

ReleaseMutex(f, t) == IF f.lock = t THEN [f EXCEPT !.lock = NoTx] ELSE f

\* headTx == txHash ? return : look the gate up (panic when there is none)
FLockCheck(t) ==
  /\ t \in Tasks /\ ~aborted /\ pc[t] = "lk_check"
  /\ LET a == CurAddr(t)
         f == addressLocks[a]
     IN /\ addressLocks' = [addressLocks EXCEPT ![a] = ReleaseMutex(f, t)]
        /\ IF f.headTx = t
           THEN /\ grants' = [grants EXCEPT ![a] = Append(@, t)]
                /\ LockReturned(t)
                /\ UNCHANGED aborted
           ELSE IF f.txLocks[t] = "none"
           THEN /\ aborted' = TRUE
                /\ UNCHANGED <<pc, idx, grants>>
           ELSE /\ pc' = [pc EXCEPT ![t] = "lk_gate"]
                /\ UNCHANGED <<idx, aborted, grants>>
  /\ UNCHANGED <<compVars, groupVars, procVars, variant, driver, accessList, tmp>>

\* lock.Lock() on the hash's gate: blocks while the gate is locked.
\* (GateOpenAlways: a Lock that does not wait on the gate.)
GateOpenAlways(f, txHash) == TRUE

GateOpen(f, txHash) == f.txLocks[txHash] = "unlocked"

FLockGate(t) ==
  /\ t \in Tasks /\ ~aborted /\ pc[t] = "lk_gate"
  /\ LET a == CurAddr(t)
     IN /\ GateOpen(addressLocks[a], t)
        /\ addressLocks' = [addressLocks EXCEPT ![a].txLocks[t] = "locked"]
        /\ grants' = [grants EXCEPT ![a] = Append(@, t)]
  /\ LockReturned(t)
  /\ UNCHANGED <<compVars, groupVars, procVars, variant, driver, accessList, tmp, aborted>>

\* ----------------------------------------------------- FIFOLocker.Unlock
\* AccessListLocker.Unlock(tx) is called
CallUnlock(t) ==
  /\ t \in Tasks /\ ~aborted /\ pc[t] = "unlock"
  /\ IF Len(accessList[t]) = 0
     THEN /\ pc' = [pc EXCEPT ![t] = AfterUnlockPc(driver)]
          /\ UNCHANGED idx
     ELSE /\ pc' = [pc EXCEPT ![t] = UnlockEntryPc(variant)]
          /\ idx' = [idx EXCEPT ![t] = 1]
  /\ UNCHANGED <<compVars, groupVars, procVars, variant, driver, accessList, addressLocks, tmp, aborted, grants>>

FUnlockAcquire(t) ==
  /\ t \in Tasks /\ ~aborted /\ pc[t] = "ul_enter"
  /\ addressLocks[CurAddr(t)].lock = NoTx
  /\ addressLocks' = [addressLocks EXCEPT ![CurAddr(t)].lock = t]
  /\ pc' = [pc EXCEPT ![t] = "ul_check"]
  /\ UNCHANGED <<compVars, groupVars, procVars, variant, driver, accessList, idx, tmp, aborted, grants>>

NotCurrentLockerNever(f, txHash) == FALSE

\* if f.headTx != txHash { panic("... is not the current locker") }
NotCurrentLocker(f, txHash) == f.headTx # txHash

\* head check, empty-queue return, and evaluation of the dequeue's operands
FUnlockCheck(t) ==
  /\ t \in Tasks /\ ~aborted /\ pc[t] = "ul_check"
  /\ LET a == CurAddr(t)
         f == addressLocks[a]
     IN IF NotCurrentLocker(f, t)
        THEN /\ aborted' = TRUE
             /\ UNCHANGED <<addressLocks, pc, idx, tmp>>
        ELSE IF Len(f.txQueue) = 0
        THEN /\ addressLocks' = [addressLocks EXCEPT ![a] = ReleaseMutex(f, t)]
             /\ UnlockReturned(t)
             /\ UNCHANGED <<tmp, aborted>>
        ELSE /\ tmp' = [tmp EXCEPT ![t] = [head |-> Head(f.txQueue),
                                           queue |-> DequeueRest(f.txQueue, variant)]]
             /\ pc' = [pc EXCEPT ![t] = "ul_head"]
             /\ UNCHANGED <<addressLocks, idx, aborted>>
  /\ UNCHANGED <<compVars, groupVars, procVars, variant, driver, accessList, grants>>

\* f.headTx = <first operand>
FUnlockHead(t) ==
  /\ t \in Tasks /\ ~aborted /\ pc[t] = "ul_head"
  /\ addressLocks' = [addressLocks EXCEPT ![CurAddr(t)].headTx = tmp[t].head]
  /\ pc' = [pc EXCEPT ![t] = "ul_queue"]
  /\ UNCHANGED <<compVars, groupVars, procVars, variant, driver, accessList, idx, tmp, aborted, grants>>

\* f.txQueue = <second operand>
FUnlockQueue(t) ==
  /\ t \in Tasks /\ ~aborted /\ pc[t] = "ul_queue"
  /\ addressLocks' = [addressLocks EXCEPT ![CurAddr(t)].txQueue = tmp[t].queue]
  /\ tmp' = [tmp EXCEPT ![t] = NoTmp]
  /\ pc' = [pc EXCEPT ![t] = "ul_gate"]
  /\ UNCHANGED <<compVars, groupVars, procVars, variant, driver, accessList, idx, aborted, grants>>

\* lock := f.txLocks[f.headTx]; lock.Unlock()
\* (unlocking an unlocked sync.Mutex is a fatal runtime error)
FUnlockGate(t) ==
  /\ t \in Tasks /\ ~aborted /\ pc[t] = "ul_gate"
  /\ LET a == CurAddr(t)
         f == addressLocks[a]
         h == f.headTx
     IN IF f.txLocks[h] # "locked"
        THEN /\ aborted' = TRUE
             /\ UNCHANGED <<addressLocks, pc, idx>>
        ELSE /\ addressLocks' = [addressLocks EXCEPT
                                   ![a] = ReleaseMutex([f EXCEPT !.txLocks[h] = "unlocked"], t)]
             /\ UnlockReturned(t)
             /\ UNCHANGED aborted
  /\ UNCHANGED <<compVars, groupVars, procVars, variant, driver, accessList, tmp, grants>>

\* ----------------------------------------------------------------- GasPool
PoolCallers == DOMAIN poolCalls

\* A pool holding g units that nothing is calling
PoolOf(g) ==
  /\ gpGas = g /\ gpInit = g /\ gpLock = NoTx
  /\ poolCalls = <<>> /\ ppc = <<>> /\ pres = <<>>

\* uint64 subtraction
Sub64(a, b) == (a - b + MaxUint64 + 1) % (MaxUint64 + 1)

\* A panic that nothing recovers ends the process
PoolPanicked == \E c \in PoolCallers : pres[c] = "panic"

\* gp.lock.Lock()
\* (GpLockIgnored: the pool used without its lock.)
GpLockIgnored == TRUE

GpLockFree == gpLock = NoTx

PoolLock(c) ==
  /\ c \in PoolCallers /\ ~PoolPanicked /\ ppc[c] = "call"
  /\ GpLockFree
  /\ gpLock' = c
  /\ ppc' = [ppc EXCEPT ![c] = "locked"]
  /\ UNCHANGED <<gpGas, gpInit, poolCalls, pres>>
  /\ UNCHANGED <<lockerVars, procVars, groupVars, viewVars, errsVars>>

\* The call returns r; the deferred gp.lock.Unlock() runs
PoolReturn(c, r) ==
  /\ pres' = [pres EXCEPT ![c] = r]
  /\ ppc' = [ppc EXCEPT ![c] = "returned"]
  /\ gpLock' = NoTx

\* SubGas: if gp.gas < amount { return ErrGasLimitReached }
\* (SubGasRefusesEqual: the comparison written as <=.)
SubGasRefusesEqual(gas, amount) == gas <= amount

SubGasRefuses(gas, amount) == gas < amount

SubGasCheck(c) ==
  /\ c \in PoolCallers /\ ~PoolPanicked /\ ppc[c] = "locked"
  /\ poolCalls[c].op = "SubGas"
  /\ IF SubGasRefuses(gpGas, poolCalls[c].amount)
     THEN PoolReturn(c, "ErrGasLimitReached")
     ELSE /\ ppc' = [ppc EXCEPT ![c] = "write"]
          /\ UNCHANGED <<gpLock, pres>>
  /\ UNCHANGED <<gpGas, gpInit, poolCalls>>
  /\ UNCHANGED <<lockerVars, procVars, groupVars, viewVars, errsVars>>

\* SubGas: gp.gas -= amount; return nil
SubGasWrite(c) ==
  /\ c \in PoolCallers /\ ~PoolPanicked /\ ppc[c] = "write"
  /\ poolCalls[c].op = "SubGas"
  /\ gpGas' = Sub64(gpGas, poolCalls[c].amount)
  /\ PoolReturn(c, "nil")
  /\ UNCHANGED <<gpInit, poolCalls>>
  /\ UNCHANGED <<lockerVars, procVars, groupVars, viewVars, errsVars>>

\* AddGas: if gp.gas > math.MaxUint64-amount { panic(...) }
\* (AddGasOverflowsWrapped: the test written as gas+amount > MaxUint64 in
\* uint64 arithmetic.)
AddGasOverflowsWrapped(gas, amount) == Add64(gas, amount) > MaxUint64

AddGasOverflows(gas, amount) == gas > MaxUint64 - amount

AddGasCheck(c) ==
  /\ c \in PoolCallers /\ ~PoolPanicked /\ ppc[c] = "locked"
  /\ poolCalls[c].op = "AddGas"
  /\ IF AddGasOverflows(gpGas, poolCalls[c].amount)
     THEN PoolReturn(c, "panic")
     ELSE /\ ppc' = [ppc EXCEPT ![c] = "write"]
          /\ UNCHANGED <<gpLock, pres>>
  /\ UNCHANGED <<gpGas, gpInit, poolCalls>>
  /\ UNCHANGED <<lockerVars, procVars, groupVars, viewVars, errsVars>>

\* AddGas: gp.gas += amount; return gp
AddGasWrite(c) ==
  /\ c \in PoolCallers /\ ~PoolPanicked /\ ppc[c] = "write"
  /\ poolCalls[c].op = "AddGas"
  /\ gpGas' = Add64(gpGas, poolCalls[c].amount)
  /\ PoolReturn(c, "gp")
  /\ UNCHANGED <<gpInit, poolCalls>>
  /\ UNCHANGED <<lockerVars, procVars, groupVars, viewVars, errsVars>>

PoolStep(c) ==
  \/ PoolLock(c)
  \/ SubGasCheck(c)
  \/ SubGasWrite(c)
  \/ AddGasCheck(c)
  \/ AddGasWrite(c)

NextPool == \E c \in 1..MaxCallers : PoolStep(c)

\* ------------------------------------------------------- txSpecificStateDB
Views == DOMAIN vpc

ViewIdle == sharedLock = NoTx /\ vpc = <<>> /\ vop = <<>> /\ vleft = <<>> /\ txContext = <<>>

\* Methods txSpecificStateDB defines (those the model's transactions call),
\* and methods of the embedded *StateDB that applyTransaction calls on the
\* view and the view does not define
WrappedOps == {"GetState", "SetState", "AddLog", "AddRefund", "SubRefund", "Snapshot",
               "RevertToSnapshot", "ForEachStorage"}
PromotedOps == {"Finalise", "GetLogs", "TxIndex"}

\* txContext: &txStateContext{journal: newJournal(), ...}; refund starts at 0
NewContext == [refund |-> 0, journal |-> <<>>]

\* txDB.lock.Lock() can proceed.  (MutexFreeAlways: a view that does not wait.)
MutexFreeAlways(m) == TRUE

MutexFree(m) == m = NoTx

\* What the store's operation does to the context installed in the store: the
\* refund counter moves by one (SubRefund takes one when there is one), SetState
\* journals one entry for the issuing view, RevertToSnapshot(id) cuts the
\* journal back to the length id.  The other operations leave it alone.
StoreApply(op, c, issuer, id) ==
  IF op = "AddRefund" THEN [c EXCEPT !.refund = @ + 1]
  ELSE IF op = "SubRefund" THEN [c EXCEPT !.refund = IF @ > 0 THEN @ - 1 ELSE @]
  ELSE IF op = "SetState" THEN [c EXCEPT !.journal = Append(@, issuer)]
  ELSE IF op = "RevertToSnapshot"
       THEN [c EXCEPT !.journal = SubSeq(@, 1, IF id < Len(@) THEN id ELSE Len(@))]
  ELSE c

\* A call on the view.  A method of the view starts with txDB.lock.Lock();
\* a promoted method is the store's own and starts to run at once.
ViewCall(v) ==
  /\ v \in Views /\ vpc[v] = "idle" /\ vleft[v] > 0
  /\ \E op \in WrappedOps \cup PromotedOps :
       /\ vop' = [vop EXCEPT ![v] = op]
       /\ IF op \in WrappedOps
          THEN /\ MutexFree(sharedLock)
               /\ sharedLock' = v
               /\ vpc' = [vpc EXCEPT ![v] = "locked"]
          ELSE /\ vpc' = [vpc EXCEPT ![v] = "delegated"]
               /\ UNCHANGED sharedLock
  /\ vleft' = [vleft EXCEPT ![v] = @ - 1]
  /\ UNCHANGED txContext
  /\ UNCHANGED <<lockerVars, procVars, groupVars, poolVars, errsVars>>

\* txDB.StateDB.txStateContext = txDB.txContext, then the call of the
\* store's method
ViewInstall(v) ==
  /\ v \in Views /\ vpc[v] = "locked"
  /\ activeCtx' = v
  /\ vpc' = [vpc EXCEPT ![v] = "delegated"]
  /\ UNCHANGED <<sharedLock, vop, vleft, txContext>>
  /\ UNCHANGED <<store, logs, rd, nops, receipt, receipts, txLogs, taskErr, egErr, mainPc, ret,
                 gasLimit, txGas, usedGas>>
  /\ UNCHANGED <<lockerVars, groupVars, poolVars, errsVars>>

\* The store's method returns; a method of the view then runs its deferred
\* txDB.lock.Unlock()
ViewReturn(v) ==
  /\ v \in Views /\ vpc[v] = "delegated"
  /\ \E id \in (IF vop[v] = "RevertToSnapshot" THEN 0..MaxViewOps ELSE {0}) :
       txContext' = IF vop[v] \in WrappedOps
                    THEN [txContext EXCEPT ![activeCtx] = StoreApply(vop[v], @, v, id)]
                    ELSE txContext
  /\ sharedLock' = IF vop[v] \in WrappedOps /\ sharedLock = v THEN NoTx ELSE sharedLock
  /\ vpc' = [vpc EXCEPT ![v] = "idle"]
  /\ vop' = [vop EXCEPT ![v] = "none"]
  /\ UNCHANGED vleft
  /\ UNCHANGED <<lockerVars, procVars, groupVars, poolVars, errsVars>>

\* StateDB.ForEachStorage calls the caller's function f(key, value) ...
ViewCallback(v) ==
  /\ v \in Views /\ vpc[v] = "delegated" /\ vop[v] = "ForEachStorage"
  /\ vpc' = [vpc EXCEPT ![v] = "callback"]
  /\ UNCHANGED <<sharedLock, vop, vleft, txContext>>
  /\ UNCHANGED <<lockerVars, procVars, groupVars, poolVars, errsVars>>

\* ... and f returns to the iteration
ViewCallbackReturn(v) ==
  /\ v \in Views /\ vpc[v] = "callback"
  /\ vpc' = [vpc EXCEPT ![v] = "delegated"]
  /\ UNCHANGED <<sharedLock, vop, vleft, txContext>>
  /\ UNCHANGED <<lockerVars, procVars, groupVars, poolVars, errsVars>>

NextView ==
  \E v \in Hashes : \/ ViewCall(v)
                     \/ ViewInstall(v)
                     \/ ViewReturn(v)
                     \/ ViewCallback(v)
                     \/ ViewCallbackReturn(v)

\* ------------------------------------------------------------ wrappers.Errs
AddCallers == DOMAIN apc

ErrsIdle ==
  /\ errsErr = "nil" /\ rwReaders = 0 /\ rwWriter = NoTx /\ rwFatal = FALSE
  /\ apc = <<>> /\ aarg = <<>>

\* errs.rw.RLock(): waits while a writer holds or waits for the lock
AddRLock(c) ==
  /\ c \in AddCallers /\ ~rwFatal /\ apc[c] = "call"
  /\ rwWriter = NoTx
  /\ rwReaders' = rwReaders + 1
  /\ apc' = [apc EXCEPT ![c] = "check"]
  /\ UNCHANGED <<errsErr, rwWriter, rwFatal, aarg>>
  /\ UNCHANGED <<lockerVars, procVars, groupVars, poolVars, viewVars>>

\* if errs.Err == nil { for ... if err != nil { errs.rw.RUnlock() ...
AddCheck(c) ==
  /\ c \in AddCallers /\ ~rwFatal /\ apc[c] = "check"
  /\ IF errsErr = "nil" /\ aarg[c] # "nil"
     THEN /\ rwReaders' = rwReaders - 1
          /\ apc' = [apc EXCEPT ![c] = "lock"]
     ELSE /\ apc' = [apc EXCEPT ![c] = "deferred"]
          /\ UNCHANGED rwReaders
  /\ UNCHANGED <<errsErr, rwWriter, rwFatal, aarg>>
  /\ UNCHANGED <<lockerVars, procVars, groupVars, poolVars, viewVars>>

\* errs.rw.Lock(): takes the writer's place, keeping new readers out ...
AddLockPending(c) ==
  /\ c \in AddCallers /\ ~rwFatal /\ apc[c] = "lock"
  /\ rwWriter = NoTx
  /\ rwWriter' = c
  /\ apc' = [apc EXCEPT ![c] = "drain"]
  /\ UNCHANGED <<errsErr, rwReaders, rwFatal, aarg>>
  /\ UNCHANGED <<lockerVars, procVars, groupVars, poolVars, viewVars>>

\* ... and returns when the readers have left; errs.Err = err; errs.rw.Unlock()
AddWrite(c) ==
  /\ c \in AddCallers /\ ~rwFatal /\ apc[c] = "drain"
  /\ rwReaders = 0
  /\ errsErr' = aarg[c]
  /\ rwWriter' = NoTx
  /\ apc' = [apc EXCEPT ![c] = "deferred"]
  /\ UNCHANGED <<rwReaders, rwFatal, aarg>>
  /\ UNCHANGED <<lockerVars, procVars, groupVars, poolVars, viewVars>>

\* the deferred errs.rw.RUnlock(): a fatal error when no read lock is held
AddDeferred(c) ==
  /\ c \in AddCallers /\ ~rwFatal /\ apc[c] = "deferred"
  /\ IF rwReaders = 0
     THEN /\ rwFatal' = TRUE
          /\ UNCHANGED <<rwReaders, apc>>
     ELSE /\ rwReaders' = rwReaders - 1
          /\ apc' = [apc EXCEPT ![c] = "returned"]
          /\ UNCHANGED rwFatal
  /\ UNCHANGED <<errsErr, rwWriter, aarg>>
  /\ UNCHANGED <<lockerVars, procVars, groupVars, poolVars, viewVars>>

NextErrs ==
  \E c \in 1..MaxCallers : \/ AddRLock(c)
                            \/ AddCheck(c)
                            \/ AddLockPending(c)
                            \/ AddWrite(c)
                            \/ AddDeferred(c)

\* --------------------------------------------------------- processParallel
NoErr == [tx |-> NoTx, kind |-> "nil"]
NoReceipt == [TxHash |-> NoTx, Logs |-> <<>>, TransactionIndex |-> NoTx,
              GasUsed |-> 0, CumulativeGasUsed |-> 0]
NoRet == [receipts |-> <<>>, logs |-> <<>>, usedGas |-> 0, err |-> NoErr, finalized |-> FALSE]

\* The goroutine returns err: errgroup records the first one (errOnce).
\* The closure returns without calling txLocker.Unlock(tx).
TaskFails(t, kind) ==
  LET e == [tx |-> t, kind |-> kind]
  IN /\ taskErr' = [taskErr EXCEPT ![t] = e]
     /\ egErr' = IF egErr = NoErr THEN e ELSE egErr
     /\ pc' = [pc EXCEPT ![t] = "done"]

\* tx.AsMessage(signer, baseFee)
AsMessage(t) ==
  /\ t \in Tasks /\ ~aborted /\ pc[t] = "as_message"
  /\ \E ok \in BOOLEAN :
       IF ok
       THEN /\ pc' = [pc EXCEPT ![t] = "apply_message"]
            /\ UNCHANGED <<taskErr, egErr>>
       ELSE TaskFails(t, "as_message")
  /\ UNCHANGED <<compVars, groupVars, variant, driver, accessList, addressLocks, idx, tmp, aborted, grants>>
  /\ UNCHANGED <<store, activeCtx, logs, rd, nops, receipt, receipts, txLogs, mainPc, ret, gasLimit, txGas, usedGas>>

\* ApplyMessage(evm, msg, gp): a consensus error, or the VM starts to run
ApplyMessage(t) ==
  /\ t \in Tasks /\ ~aborted /\ pc[t] = "apply_message"
  /\ \E ok \in BOOLEAN :
       IF ok
       THEN /\ pc' = [pc EXCEPT ![t] = IF Len(accessList[t]) = 0 THEN "vm_log" ELSE "vm_get"]
            /\ idx' = [idx EXCEPT ![t] = IF Len(accessList[t]) = 0 THEN 0 ELSE 1]
            /\ UNCHANGED <<taskErr, egErr>>
       ELSE /\ TaskFails(t, "apply_message")
            /\ UNCHANGED idx
  /\ UNCHANGED <<compVars, groupVars, variant, driver, accessList, addressLocks, tmp, aborted, grants>>
  /\ UNCHANGED <<store, activeCtx, logs, rd, nops, receipt, receipts, txLogs, mainPc, ret, gasLimit, txGas, usedGas>>

\* The value a transaction stores in a slot: it depends on the value read.
Written(old, t) == Append(old, t)

\* txDB.GetState: under the shared lock, install the context and read
GetState(t) ==
  /\ t \in Tasks /\ ~aborted /\ pc[t] = "vm_get"
  /\ activeCtx' = t
  /\ rd' = [rd EXCEPT ![t] = store[CurAddr(t)]]
  /\ nops' = [nops EXCEPT ![t] = @ + 1]
  /\ pc' = [pc EXCEPT ![t] = "vm_set"]
  /\ UNCHANGED <<compVars, groupVars, variant, driver, accessList, addressLocks, idx, tmp, aborted, grants>>
  /\ UNCHANGED <<store, logs, receipt, receipts, txLogs, taskErr, egErr, mainPc, ret, gasLimit, txGas, usedGas>>

\* txDB.SetState: under the shared lock, install the context and write
SetState(t) ==
  /\ t \in Tasks /\ ~aborted /\ pc[t] = "vm_set"
  /\ activeCtx' = t
  /\ store' = [store EXCEPT ![CurAddr(t)] = Written(rd[t], t)]
  /\ rd' = [rd EXCEPT ![t] = <<>>]
  /\ nops' = [nops EXCEPT ![t] = @ + 1]
  /\ IF idx[t] < Len(accessList[t])
     THEN /\ pc' = [pc EXCEPT ![t] = "vm_get"]
          /\ idx' = [idx EXCEPT ![t] = @ + 1]
     ELSE /\ pc' = [pc EXCEPT ![t] = "vm_log"]
          /\ idx' = [idx EXCEPT ![t] = 0]
  /\ UNCHANGED <<compVars, groupVars, variant, driver, accessList, addressLocks, tmp, aborted, grants>>
  /\ UNCHANGED <<logs, receipt, receipts, txLogs, taskErr, egErr, mainPc, ret, gasLimit, txGas, usedGas>>

\* txDB.AddLog: under the shared lock, install the context; the store files
\* the log under the hash of the installed context
AddLog(t) ==
  /\ t \in Tasks /\ ~aborted /\ pc[t] = "vm_log"
  /\ activeCtx' = t
  /\ logs' = [logs EXCEPT ![activeCtx'] = Append(@, t)]
  /\ nops' = [nops EXCEPT ![t] = @ + 1]
  /\ pc' = [pc EXCEPT ![t] = "add_gas"]
  /\ UNCHANGED <<compVars, groupVars, variant, driver, accessList, addressLocks, idx, tmp, aborted, grants>>
  /\ UNCHANGED <<store, rd, receipt, receipts, txLogs, taskErr, egErr, mainPc, ret, gasLimit, txGas, usedGas>>

\* applyTransaction after ApplyMessage returned: statedb.Finalise(true), then
\* atomic.AddUint64(usedGas, result.UsedGas)
AddUsedGas(t) ==
  /\ t \in Tasks /\ ~aborted /\ pc[t] = "add_gas"
  /\ usedGas' = Add64(usedGas, txGas[t])
  /\ nops' = [nops EXCEPT ![t] = @ + 1]
  /\ pc' = [pc EXCEPT ![t] = "make_receipt"]
  /\ UNCHANGED <<compVars, groupVars, variant, driver, accessList, addressLocks, idx, tmp, aborted, grants>>
  /\ UNCHANGED <<store, activeCtx, logs, rd, receipt, receipts, txLogs, taskErr, egErr, mainPc, ret,
                 gasLimit, txGas>>

\* statedb.TxIndex() is not defined by txSpecificStateDB: the embedded
\* StateDB answers from whichever context is installed, without the lock.
StateDB_TxIndex == activeCtx

\* applyTransaction builds the receipt: CumulativeGasUsed is the counter as
\* loaded now, then GasUsed, GetLogs(tx.Hash(), ...), TxIndex()
MakeReceipt(t) ==
  /\ t \in Tasks /\ ~aborted /\ pc[t] = "make_receipt"
  /\ receipt' = [receipt EXCEPT ![t] =
                   [TxHash |-> t, Logs |-> logs[t], TransactionIndex |-> StateDB_TxIndex,
                    GasUsed |-> txGas[t], CumulativeGasUsed |-> usedGas]]
  /\ nops' = [nops EXCEPT ![t] = @ + 1]
  /\ pc' = [pc EXCEPT ![t] = "unlock"]
  /\ UNCHANGED <<compVars, groupVars, variant, driver, accessList, addressLocks, idx, tmp, aborted, grants>>
  /\ UNCHANGED <<store, activeCtx, logs, rd, receipts, txLogs, taskErr, egErr, mainPc, ret, gasLimit, txGas, usedGas>>

\* The position the closure of transaction i writes: receipts[i], txLogs[i].
\* (ReceiptSlotNextFree: the results appended in completion order.)
ReceiptSlotNextFree(rs, i) ==
  CHOOSE k \in DOMAIN rs : rs[k] = NoReceipt /\ \A j \in 1..(k - 1) : rs[j] # NoReceipt

ReceiptSlot(rs, i) == i

\* receipts[i] = receipt; txLogs[i] = receipt.Logs; return nil
SetReceipt(t) ==
  /\ t \in Tasks /\ ~aborted /\ pc[t] = "set_receipt"
  /\ receipts' = [receipts EXCEPT ![ReceiptSlot(receipts, t)] = receipt[t]]
  /\ txLogs' = [txLogs EXCEPT ![ReceiptSlot(receipts, t)] = receipt[t].Logs]
  /\ receipt' = [receipt EXCEPT ![t] = NoReceipt]
  /\ pc' = [pc EXCEPT ![t] = "done"]
  /\ UNCHANGED <<compVars, groupVars, variant, driver, accessList, addressLocks, idx, tmp, aborted, grants>>
  /\ UNCHANGED <<store, activeCtx, logs, rd, nops, taskErr, egErr, mainPc, ret, gasLimit, txGas, usedGas>>

RECURSIVE Concat(_, _)
Concat(ss, k) == IF k > Len(ss) THEN <<>> ELSE ss[k] \o Concat(ss, k + 1)

\* The post-join loop: cumulativeGasUsed += receipt.GasUsed;
\* receipt.CumulativeGasUsed = cumulativeGasUsed, in block order.
\* (CumulativeGasKept: the loop sums but leaves each receipt the value its
\* task loaded.)
RECURSIVE CumulativeGasKept(_, _, _)
CumulativeGasKept(rs, k, cum) == rs

RECURSIVE CumulativeGas(_, _, _)
CumulativeGas(rs, k, cum) ==
  IF k > Len(rs) THEN rs
  ELSE LET c == Add64(cum, rs[k].GasUsed)
       IN CumulativeGas([rs EXCEPT ![k].CumulativeGasUsed = c], k + 1, c)

TotalGas(rs) == IF Len(rs) = 0 THEN 0 ELSE rs[Len(rs)].CumulativeGasUsed

\* if cumulativeGasUsed > header.GasLimit { return nil, nil, 0, err }
\* (ExceedsGasLimitBySome: the comparison written with a slack of one.)
ExceedsGasLimitBySome(total, limit) == total > limit + 1

ExceedsGasLimit(total, limit) == total > limit

GasLimitErr == [tx |-> NoTx, kind |-> "gas_limit"]

\* eg.Wait() returns once every goroutine has returned; then the error
\* return, or the coalesced logs, the cumulative gas of the receipts, the
\* gas limit check, engine.Finalize and the return of the results
ProcWait ==
  /\ ~aborted /\ mainPc = "wait"
  /\ \A t \in Tasks : pc[t] = "done"
  /\ mainPc' = "returned"
  /\ IF egErr # NoErr
     THEN /\ ret' = [NoRet EXCEPT !.err = egErr]
          /\ UNCHANGED receipts
     ELSE LET rs == CumulativeGas(receipts, 1, 0)
          IN /\ receipts' = rs
             /\ ret' = IF ExceedsGasLimit(TotalGas(rs), gasLimit)
                       THEN [NoRet EXCEPT !.err = GasLimitErr]
                       ELSE [receipts |-> rs, logs |-> Concat(txLogs, 1), usedGas |-> usedGas,
                             err |-> NoErr, finalized |-> TRUE]
  /\ UNCHANGED <<compVars, groupVars, lockerVars>>
  /\ UNCHANGED <<store, activeCtx, logs, rd, nops, receipt, txLogs, taskErr, egErr,
                 gasLimit, txGas, usedGas>>

\* ------------------------------------------------------------- processSync
\* One transaction applied to the state by the serial loop.
RECURSIVE SerialWrites(_, _, _, _)
SerialWrites(st, al, t, k) ==
  IF k > Len(al[t]) THEN st
  ELSE SerialWrites([st EXCEPT ![al[t][k]] = Written(@, t)], al, t, k + 1)

RECURSIVE SerialLoop(_, _, _, _)
SerialLoop(al, gas, t, acc) ==
  IF t > Len(al) THEN acc
  ELSE LET u == Add64(acc.usedGas, gas[t])
           r == [TxHash |-> t, Logs |-> <<t>>, TransactionIndex |-> t,
                 GasUsed |-> gas[t], CumulativeGasUsed |-> u]
       IN SerialLoop(al, gas, t + 1,
            [store |-> SerialWrites(acc.store, al, t, 1),
             receipts |-> Append(acc.receipts, r),
             logs |-> acc.logs \o r.Logs,
             usedGas |-> u])

processSync(al, gas) ==
  SerialLoop(al, gas, 1,
             [store |-> [a \in Addrs |-> <<>>], receipts |-> <<>>, logs |-> <<>>, usedGas |-> 0])

\* ------------------------------------------------------------ BoundedGroup
Errors == {"err1", "err2"}
Results == {"nil"} \cup Errors
WorkerIds == 1..numWorkers

GroupIdle ==
  /\ numWorkers = 0 /\ maxPending = 0 /\ withCtx = FALSE /\ taskFns = <<>>
  /\ gpc = "idle" /\ goIdx = 0 /\ workers = 0 /\ tasks = <<>> /\ closer = FALSE
  /\ taskWG = 0 /\ workerWG = 0 /\ wpc = <<>> /\ werr = <<>> /\ wfn = <<>> /\ ran = {}
  /\ gerr = "nil" /\ errOnce = FALSE /\ ctxDone = FALSE /\ gret = "none"

\* NewBoundedErrGroup / NewBoundedErrGroupWithContext, and the functions the
\* caller is about to submit
InitGroup ==
  /\ numWorkers \in 1..MaxWorkers
  /\ maxPending \in 0..MaxPending
  /\ withCtx \in BOOLEAN
  /\ taskFns \in UNION {[1..n -> Results] : n \in 0..MaxTasks}
  /\ gpc = IF Len(taskFns) = 0 THEN "wait" ELSE "go"
  /\ goIdx = IF Len(taskFns) = 0 THEN 0 ELSE 1
  /\ workers = 0 /\ tasks = <<>> /\ closer = FALSE
  /\ taskWG = 0 /\ workerWG = 0
  /\ wpc = [w \in WorkerIds |-> "unstarted"]
  /\ werr = [w \in WorkerIds |-> "nil"]
  /\ wfn = [w \in WorkerIds |-> 0]
  /\ ran = {}
  /\ gerr = "nil" /\ errOnce = FALSE /\ ctxDone = FALSE /\ gret = "none"

\* Go, first half: start one more worker while the workers channel has room,
\* then taskWG.Add(1)
GoStart ==
  /\ gpc = "go"
  /\ IF workers < numWorkers
     THEN /\ workers' = workers + 1
          /\ workerWG' = workerWG + 1
          /\ wpc' = [wpc EXCEPT ![workers + 1] = "select"]
     ELSE UNCHANGED <<workers, workerWG, wpc>>
  /\ taskWG' = taskWG + 1
  /\ gpc' = "send"
  /\ UNCHANGED <<numWorkers, maxPending, withCtx, taskFns, goIdx, tasks, closer, werr, ran,
                 gerr, errOnce, ctxDone, gret, wfn>>
  /\ UNCHANGED <<lockerVars, procVars, compVars>>

\* The Go call returns: the next Go, or Wait
GoReturned ==
  IF goIdx < Len(taskFns)
  THEN /\ gpc' = "go" /\ goIdx' = goIdx + 1
  ELSE /\ gpc' = "wait" /\ goIdx' = 0

\* Go, second half: g.tasks <- f on a buffered channel with room
\* (TasksUnbounded: a tasks channel that never fills.)
TasksUnbounded == TRUE

TasksHasRoom == Len(tasks) < maxPending

GoSend ==
  /\ gpc = "send"
  /\ TasksHasRoom
  /\ tasks' = Append(tasks, goIdx)
  /\ GoReturned
  /\ UNCHANGED <<numWorkers, maxPending, withCtx, taskFns, workers, closer, taskWG, workerWG,
                 wpc, werr, ran, gerr, errOnce, ctxDone, gret, wfn>>
  /\ UNCHANGED <<lockerVars, procVars, compVars>>

\* A worker has received function i from g.tasks and starts to run it
TakeTask(w, i) ==
  /\ wfn' = [wfn EXCEPT ![w] = i]
  /\ wpc' = [wpc EXCEPT ![w] = "run"]

\* A worker has run function i: the deferred taskWG.Done(), then the
\* function's error is in the worker's hands
RunTask(w, i) ==
  /\ ran' = ran \cup {i}
  /\ taskWG' = taskWG - 1
  /\ werr' = [werr EXCEPT ![w] = taskFns[i]]
  /\ wpc' = [wpc EXCEPT ![w] = IF taskFns[i] = "nil" THEN "select" ELSE "report"]
  /\ wfn' = [wfn EXCEPT ![w] = 0]

\* startWorker: f() runs and returns
WorkerRun(w) ==
  /\ w \in WorkerIds
  /\ wpc[w] = "run"
  /\ RunTask(w, wfn[w])
  /\ UNCHANGED <<numWorkers, maxPending, withCtx, taskFns, gpc, goIdx, workers, tasks, closer,
                 workerWG, gerr, errOnce, ctxDone, gret>>
  /\ UNCHANGED <<lockerVars, procVars, compVars>>

\* g.tasks <- f with no buffer room, handed straight to a worker that is
\* waiting in its select
GoHandOff(w) ==
  /\ w \in WorkerIds
  /\ gpc = "send"
  /\ Len(tasks) = 0
  /\ wpc[w] = "select"
  /\ TakeTask(w, goIdx)
  /\ GoReturned
  /\ UNCHANGED <<numWorkers, maxPending, withCtx, taskFns, workers, tasks, closer, workerWG,
                 taskWG, werr, ran, gerr, errOnce, ctxDone, gret>>
  /\ UNCHANGED <<lockerVars, procVars, compVars>>

\* startWorker: case f := <-g.tasks
WorkerTake(w) ==
  /\ w \in WorkerIds
  /\ wpc[w] = "select"
  /\ Len(tasks) > 0
  /\ tasks' = Tail(tasks)
  /\ TakeTask(w, Head(tasks))
  /\ UNCHANGED <<numWorkers, maxPending, withCtx, taskFns, gpc, goIdx, workers, closer,
                 workerWG, taskWG, werr, ran, gerr, errOnce, ctxDone, gret>>
  /\ UNCHANGED <<lockerVars, procVars, compVars>>

\* sync.Once: Do runs its function only on the first call.
\* (OnceNeverDone: a Do that runs its function every time.)
OnceNeverDone(done) == FALSE

OnceDone(done) == done

\* if g.cancel != nil { g.cancel() } inside the once function.
\* (NoCancelOnError: a worker that only stores the error.)
NoCancelOnError(ctx) == ctxDone

CancelOnError(ctx) == ctxDone \/ ctx

\* startWorker: g.errOnce.Do(func() { g.err = err; cancel() })
WorkerReport(w) ==
  /\ w \in WorkerIds
  /\ wpc[w] = "report"
  /\ IF OnceDone(errOnce)
     THEN UNCHANGED <<gerr, errOnce, ctxDone>>
     ELSE /\ gerr' = werr[w]
          /\ errOnce' = TRUE
          /\ ctxDone' = CancelOnError(withCtx)
  /\ wpc' = [wpc EXCEPT ![w] = "select"]
  /\ werr' = [werr EXCEPT ![w] = "nil"]
  /\ UNCHANGED <<numWorkers, maxPending, withCtx, taskFns, gpc, goIdx, workers, tasks, closer,
                 taskWG, workerWG, ran, gret, wfn>>
  /\ UNCHANGED <<lockerVars, procVars, compVars>>

\* startWorker: case <-g.closer: return (deferred workerWG.Done())
WorkerExit(w) ==
  /\ w \in WorkerIds
  /\ wpc[w] = "select"
  /\ closer
  /\ wpc' = [wpc EXCEPT ![w] = "exited"]
  /\ workerWG' = workerWG - 1
  /\ UNCHANGED <<numWorkers, maxPending, withCtx, taskFns, gpc, goIdx, workers, tasks, closer,
                 taskWG, werr, ran, gerr, errOnce, ctxDone, gret, wfn>>
  /\ UNCHANGED <<lockerVars, procVars, compVars>>

\* (Wait without g.taskWG.Wait().)
TasksNotJoined == TRUE

\* Wait: g.taskWG.Wait() has returned; close(g.closer)
TasksJoined == taskWG = 0

WaitClose ==
  /\ gpc = "wait"
  /\ TasksJoined
  /\ closer' = TRUE
  /\ gpc' = "join"
  /\ UNCHANGED <<numWorkers, maxPending, withCtx, taskFns, goIdx, workers, tasks, taskWG,
                 workerWG, wpc, werr, ran, gerr, errOnce, ctxDone, gret, wfn>>
  /\ UNCHANGED <<lockerVars, procVars, compVars>>

\* Wait: g.workerWG.Wait() has returned
\* (WorkersNotJoined: a Wait without g.workerWG.Wait().)
WorkersNotJoined == TRUE

WorkersJoined == workerWG = 0

\* Wait: cancel the derived context if one was supplied
\* (NoCancelOnWait: a Wait without the call of cancel.)
NoCancelOnWait(ctx) == ctxDone

CancelOnWait(ctx) == ctxDone \/ ctx

WaitReturn ==
  /\ gpc = "join"
  /\ WorkersJoined
  /\ ctxDone' = CancelOnWait(withCtx)
  /\ gret' = gerr
  /\ gpc' = "returned"
  /\ UNCHANGED <<numWorkers, maxPending, withCtx, taskFns, goIdx, workers, tasks, closer,
                 taskWG, workerWG, wpc, werr, ran, gerr, errOnce, wfn>>
  /\ UNCHANGED <<lockerVars, procVars, compVars>>

NextGroup ==
  \/ GoStart
  \/ GoSend
  \/ \E w \in 1..MaxWorkers : GoHandOff(w)
  \/ \E w \in 1..MaxWorkers : WorkerTake(w)
  \/ \E w \in 1..MaxWorkers : WorkerRun(w)
  \/ \E w \in 1..MaxWorkers : WorkerReport(w)
  \/ \E w \in 1..MaxWorkers : WorkerExit(w)
  \/ WaitClose
  \/ WaitReturn

\* ------------------------------------------------------------------- specs
\* processParallel's locals at entry; without a block there is no gas
NoGas ==
  /\ gasLimit = 0
  /\ txGas = [t \in Tasks |-> 0]

\* A block whose transactions each use one unit of gas, within the limit
UnitGas ==
  /\ gasLimit = Len(accessList)
  /\ txGas = [t \in Tasks |-> 1]

\* A block with any gas use per transaction, over or within the limit
AnyGas ==
  /\ gasLimit \in NumTx..(NumTx + 1)
  /\ txGas \in [Tasks -> 1..MaxTxGas]

ProcIdle ==
  /\ store = [a \in Addrs |-> <<>>]
  /\ activeCtx = NoTx
  /\ logs = [t \in Tasks |-> <<>>]
  /\ rd = [t \in Tasks |-> <<>>]
  /\ nops = [t \in Tasks |-> 0]
  /\ receipt = [t \in Tasks |-> NoReceipt]
  /\ receipts = [t \in Tasks |-> NoReceipt]
  /\ txLogs = [t \in Tasks |-> <<>>]
  /\ taskErr = [t \in Tasks |-> NoErr]
  /\ egErr = NoErr
  /\ mainPc = "wait"
  /\ ret = NoRet
  /\ usedGas = 0

\* The state after NewAccessListLocker(txs) and the start of one goroutine
\* per transaction.
LockSetBuilt(d, lists) ==
  /\ variant \in Variants
  /\ driver = d
  /\ accessList \in lists
  /\ LET built == NewAccessListLocker(accessList, variant)
     IN /\ addressLocks = built.locks
        /\ aborted = built.panicked
  /\ pc = [t \in Tasks |-> StartPc(accessList, variant, driver, t)]
  /\ idx = [t \in Tasks |-> IF Len(accessList[t]) = 0 THEN 0 ELSE 1]
  /\ tmp = [t \in Tasks |-> NoTmp]
  /\ grants = [a \in Addrs |-> <<>>]

LockerStep(t) ==
  \/ FLockAcquire(t)
  \/ FLockCheck(t)
  \/ FLockGate(t)
  \/ CallUnlock(t)
  \/ FUnlockAcquire(t)
  \/ FUnlockCheck(t)
  \/ FUnlockHead(t)
  \/ FUnlockQueue(t)
  \/ FUnlockGate(t)

NextLocker == \E t \in Hashes : LockerStep(t)

\* TestFIFOLocker: one lock, head h0, reservations h1..hn
InitFIFO ==
  /\ LockSetBuilt("TestFIFOLocker", {[h \in 1..NumHashes |-> <<"a1">>]})
  /\ ProcIdle /\ NoGas /\ PoolOf(gasLimit) /\ ViewIdle /\ ErrsIdle
  /\ GroupIdle

\* TestTxLocker: Lock(tx); Unlock(tx) on a lock set over arbitrary lists
InitLocker ==
  /\ LockSetBuilt("TestTxLocker", [Txs -> AccessLists(MaxListLen)])
  /\ ProcIdle /\ NoGas /\ PoolOf(gasLimit) /\ ViewIdle /\ ErrsIdle
  /\ GroupIdle

Init ==
  /\ LockSetBuilt("processParallel", [Txs -> AccessLists(ProcListLen)])
  /\ ProcIdle /\ UnitGas /\ PoolOf(gasLimit) /\ ViewIdle /\ ErrsIdle
  /\ GroupIdle

\* processParallel on blocks whose gas use varies: the transactions declare
\* nothing (they run fully in parallel) or all declare the same address
GasBlocks == [Txs -> {<<>>}] \cup [Txs -> {<<"a1">>}]

InitGas ==
  /\ LockSetBuilt("processParallel", GasBlocks)
  /\ ProcIdle /\ AnyGas /\ PoolOf(gasLimit) /\ ViewIdle /\ ErrsIdle
  /\ GroupIdle

TaskStep(t) ==
  \/ AsMessage(t)
  \/ ApplyMessage(t)
  \/ GetState(t)
  \/ SetState(t)
  \/ AddLog(t)
  \/ AddUsedGas(t)
  \/ MakeReceipt(t)
  \/ SetReceipt(t)

Next ==
  \/ \E t \in Hashes : LockerStep(t)
  \/ \E t \in Hashes : TaskStep(t)
  \/ ProcWait

vars == <<lockerVars, procVars, groupVars, compVars>>

SpecFIFO == InitFIFO /\ [][NextLocker]_vars
SpecLocker == InitLocker /\ [][NextLocker]_vars

\* A lock set built from the block's transactions, and one more transaction
\* that was not in the list: it calls Lock(tx) then Unlock(tx), or Unlock(tx)
\* alone, while the block's transactions lock and unlock.
ForeignTx == NumTx + 1

InitForeign ==
  /\ variant \in Variants
  /\ driver = "ForeignTx"
  /\ accessList \in [1..ForeignTx -> AccessLists(ProcListLen)]
  /\ LET built == NewAccessListLocker(SubSeq(accessList, 1, NumTx), variant)
     IN /\ addressLocks = built.locks
        /\ aborted = built.panicked
  /\ \E first \in {"Lock", "Unlock"} :
       pc = [t \in Tasks |-> IF t = ForeignTx /\ first = "Unlock" THEN "unlock"
                             ELSE StartPc(accessList, variant, driver, t)]
  /\ idx = [t \in Tasks |-> IF Len(accessList[t]) = 0 THEN 0 ELSE 1]
  /\ tmp = [t \in Tasks |-> NoTmp]
  /\ grants = [a \in Addrs |-> <<>>]
  /\ ProcIdle /\ NoGas /\ PoolOf(gasLimit) /\ ViewIdle /\ ErrsIdle
  /\ GroupIdle

SpecForeign == InitForeign /\ [][NextLocker]_vars

\* The transaction tasks Lock(tx); Unlock(tx) handed in block order to a
\* BoundedGroup with fewer workers than transactions and a queue of at least
\* one place.
PoolTxs == 1..(NumTx + 1)

InitBoundedTx ==
  /\ variant \in Variants
  /\ driver = "BoundedTx"
  /\ accessList \in [PoolTxs -> AccessLists(ProcListLen)]
  /\ LET built == NewAccessListLocker(accessList, variant)
     IN /\ addressLocks = built.locks
        /\ aborted = built.panicked
  /\ pc = [t \in PoolTxs |-> "queued"]
  /\ idx = [t \in PoolTxs |-> IF Len(accessList[t]) = 0 THEN 0 ELSE 1]
  /\ tmp = [t \in PoolTxs |-> NoTmp]
  /\ grants = [a \in Addrs |-> <<>>]
  /\ ProcIdle /\ NoGas /\ PoolOf(gasLimit) /\ ViewIdle /\ ErrsIdle
  /\ numWorkers \in 1..MaxWorkers /\ numWorkers <= NumTx
  /\ maxPending \in 1..MaxPending
  /\ withCtx = TRUE
  /\ taskFns = [t \in PoolTxs |-> "nil"]
  /\ gpc = "go" /\ goIdx = 1
  /\ workers = 0 /\ tasks = <<>> /\ closer = FALSE
  /\ taskWG = 0 /\ workerWG = 0
  /\ wpc = [w \in WorkerIds |-> "unstarted"]
  /\ werr = [w \in WorkerIds |-> "nil"]
  /\ wfn = [w \in WorkerIds |-> 0]
  /\ ran = {}
  /\ gerr = "nil" /\ errOnce = FALSE /\ ctxDone = FALSE /\ gret = "none"

\* The worker calls f(): the closure starts with txLocker.Lock(tx)
TxTaskStart(w) ==
  /\ w \in WorkerIds /\ ~aborted
  /\ wpc[w] = "run" /\ pc[wfn[w]] = "queued"
  /\ pc' = [pc EXCEPT ![wfn[w]] = StartPc(accessList, variant, driver, wfn[w])]
  /\ UNCHANGED <<compVars, groupVars, procVars, variant, driver, accessList, addressLocks,
                 idx, tmp, aborted, grants>>

\* f() returns once the closure has run to its end
TxTaskReturn(w) ==
  /\ w \in WorkerIds /\ ~aborted
  /\ wpc[w] = "run" /\ pc[wfn[w]] = "done"
  /\ WorkerRun(w)

NextBoundedTx ==
  \/ GoStart
  \/ GoSend
  \/ \E w \in 1..MaxWorkers : GoHandOff(w)
  \/ \E w \in 1..MaxWorkers : WorkerTake(w)
  \/ \E w \in 1..MaxWorkers : TxTaskStart(w)
  \/ \E t \in Hashes : LockerStep(t)
  \/ \E w \in 1..MaxWorkers : TxTaskReturn(w)
  \/ \E w \in 1..MaxWorkers : WorkerExit(w)
  \/ WaitClose
  \/ WaitReturn

SpecBoundedTx == InitBoundedTx /\ [][NextBoundedTx]_vars
Spec == Init /\ [][Next]_vars
SpecGas == InitGas /\ [][Next]_vars

\* A BoundedGroup on its own: Go for every function, then Wait
InitBounded ==
  /\ InitGroup
  /\ variant = "part_006" /\ driver = "BoundedGroup" /\ accessList = <<>>
  /\ addressLocks = [a \in Addrs |-> NoLocker]
  /\ pc = <<>> /\ idx = <<>> /\ tmp = <<>> /\ aborted = FALSE
  /\ grants = [a \in Addrs |-> <<>>]
  /\ ProcIdle /\ NoGas /\ PoolOf(gasLimit) /\ ViewIdle /\ ErrsIdle

SpecGroup == InitBounded /\ [][NextGroup]_vars

\* No block is being processed
NoBlock(d) ==
  /\ variant = "part_006" /\ driver = d /\ accessList = <<>>
  /\ addressLocks = [a \in Addrs |-> NoLocker]
  /\ pc = <<>> /\ idx = <<>> /\ tmp = <<>> /\ aborted = FALSE
  /\ grants = [a \in Addrs |-> <<>>]
  /\ ProcIdle /\ NoGas
  /\ GroupIdle

\* One GasPool and the goroutines that call SubGas or AddGas on it
GasAmounts == {0, 1, 2, MaxUint64 - 1, MaxUint64}
PoolOps == {"SubGas", "AddGas"}

InitPool ==
  /\ NoBlock("GasPool")
  /\ ViewIdle /\ ErrsIdle
  /\ gpGas \in 0..MaxUint64 /\ gpInit = gpGas /\ gpLock = NoTx
  /\ poolCalls \in [1..MaxCallers -> [op : PoolOps, amount : GasAmounts]]
  /\ ppc = [c \in 1..MaxCallers |-> "call"]
  /\ pres = [c \in 1..MaxCallers |-> "none"]

SpecPool == InitPool /\ [][NextPool]_vars

\* One view per transaction over the shared store, each making calls
InitView ==
  /\ NoBlock("txSpecificStateDB")
  /\ PoolOf(0) /\ ErrsIdle
  /\ sharedLock = NoTx
  /\ vpc = [v \in Txs |-> "idle"]
  /\ vop = [v \in Txs |-> "none"]
  /\ vleft = [v \in Txs |-> MaxViewOps]
  /\ txContext = [v \in Txs |-> NewContext]

SpecView == InitView /\ [][NextView]_vars

\* One Errs, with or without an error already stored, and the goroutines
\* that each call Add with one argument
InitErrs ==
  /\ NoBlock("Errs")
  /\ PoolOf(0) /\ ViewIdle
  /\ errsErr \in Results
  /\ rwReaders = 0 /\ rwWriter = NoTx /\ rwFatal = FALSE
  /\ apc = [c \in 1..MaxCallers |-> "call"]
  /\ aarg \in [1..MaxCallers -> Results]

SpecErrs == InitErrs /\ [][NextErrs]_vars

\* ------------------------------------------------------------------ claims
Declares(t, a) == \E k \in 1..Len(accessList[t]) : accessList[t][k] = a
Declarers(a) == {t \in Tasks : Declares(t, a)}
SetMax(S) == CHOOSE x \in S : \A y \in S : y <= x
IsPrefix(s, r) == Len(s) <= Len(r) /\ s = SubSeq(r, 1, Len(s))
AllTasksDone == \A t \in Tasks : pc[t] = "done"

\* AccessListLocker.Lock(tx) has returned and Unlock(tx) has not started.
Holding(t) == pc[t] \in {"unlock", "as_message", "apply_message", "vm_get", "vm_set",
                         "vm_log", "add_gas", "make_receipt"}

\* The transaction has made its last state-store access.
OpsFinished(t) == pc[t] \in {"unlock", "ul_enter", "ul_check", "ul_head", "ul_queue",
                             "ul_gate", "set_receipt", "done"}

Returned == mainPc = "returned"
ReturnedOk == mainPc = "returned" /\ ret.err = NoErr

\* C1: when processParallel returns without error, the shared state, the
\* receipts and the logs are those of the serial loop over the same block.
C1_SerialEquivalence ==
  ReturnedOk =>
    LET s == processSync(accessList, txGas)
    IN /\ store = s.store
       /\ ret.receipts = s.receipts
       /\ ret.logs = s.logs

\* C2: on one FIFOLocker with head h0 and reservations h1..hn, the Lock calls
\* return in exactly the order h0, h1, ..., hn: no run aborts, the grants so
\* far are always a prefix of that order, and a run only stops once every
\* hash has been granted.
C2_GrantOrder ==
  /\ ~aborted
  /\ IsPrefix(grants["a1"], [i \in 1..Len(accessList) |-> i])
  /\ (Len(grants["a1"]) = Len(accessList) \/ ENABLED NextLocker)

\* C3: two transactions that declare the same address never both hold it
\* (between the return of Lock(tx) and the start of Unlock(tx)).
C3_MutualExclusion ==
  \A a \in Addrs : \A t, u \in Tasks :
    (t # u /\ Declares(t, a) /\ Declares(u, a)) => ~(Holding(t) /\ Holding(u))

\* A later declarer of an address holds it after an earlier one released it.
C3_Witness ==
  \E a \in Addrs : \E t, u \in Tasks :
    /\ t < u /\ Declares(t, a) /\ Declares(u, a)
    /\ pc[t] = "done" /\ Holding(u)

\* C4: on a lock set built from any list of transactions, every task running
\* Lock(tx); Unlock(tx) finishes: no task aborts and no state is reached in
\* which an unfinished task can never take another step.
C4_DeadlockFree ==
  ~NewAccessListLocker(accessList, variant).panicked =>
    /\ ~aborted
    /\ (AllTasksDone \/ ENABLED NextLocker)

\* C5: of two transactions that declare the same address, the one with the
\* higher block index makes no state-store access before the other has made
\* its last; and after a successful return every declared address holds the
\* value written by its highest-index declarer.
C5_OverlapOrder ==
  /\ \A a \in Addrs : \A i, j \in Tasks :
       (i < j /\ Declares(i, a) /\ Declares(j, a) /\ nops[j] > 0) => OpsFinished(i)
  /\ ReturnedOk =>
       \A a \in Addrs :
         Declarers(a) # {} =>
           /\ Len(store[a]) > 0
           /\ store[a][Len(store[a])] = SetMax(Declarers(a))

\* Two transactions wrote the same address and processParallel returned.
C5_Witness ==
  /\ ReturnedOk
  /\ \E a \in Addrs : Cardinality(Declarers(a)) >= 2 /\ Len(store[a]) >= 2

\* C6: once a transaction task has failed, processParallel eventually
\* returns, and it returns the first error observed with no receipts and no
\* logs: the run never stops before the return and never aborts.
C6_ErrorReturned ==
  (\E t \in Tasks : taskErr[t] # NoErr) =>
    IF Returned
    THEN ret.err = egErr /\ ret.err # NoErr /\ ret.receipts = <<>> /\ ret.logs = <<>>
    ELSE ~aborted /\ ENABLED Next

ErrTasks == {i \in DOMAIN taskFns : taskFns[i] # "nil"}

\* C7: when exactly one submitted function returns a non-nil error E, Wait
\* returns exactly E.
C7_SingleError ==
  (gpc = "returned" /\ Cardinality(ErrTasks) = 1) =>
    \A i \in ErrTasks : gret = taskFns[i]

\* Wait returned the error of a function that was not the last one submitted,
\* with more than one worker started.
C7_Witness ==
  /\ gpc = "returned" /\ Cardinality(ErrTasks) = 1
  /\ workers >= 2
  /\ \E i \in ErrTasks : i < Len(taskFns) /\ gret = taskFns[i]

\* C8: Wait returns the error of the earliest-submitted function that returns
\* a non-nil error, and nil when there is none.
C8_EarliestSubmitted ==
  gpc = "returned" =>
    gret = IF ErrTasks = {} THEN "nil" ELSE taskFns[CHOOSE i \in ErrTasks : \A j \in ErrTasks : i <= j]

\* C9: when Wait returns, every function submitted with Go has run to
\* completion: none is queued, none is with a worker, none was dropped.
C9_AllTasksRan ==
  gpc = "returned" =>
    /\ ran = DOMAIN taskFns
    /\ tasks = <<>>
    /\ \A w \in WorkerIds : wpc[w] \in {"unstarted", "exited"}

\* Wait returned after several functions went through the queue.
C9_Witness ==
  /\ gpc = "returned" /\ Len(taskFns) >= 2 /\ ran = DOMAIN taskFns
  /\ maxPending >= 1

\* C10: for a group built by NewBoundedErrGroupWithContext, the derived
\* context is cancelled once Wait has returned.
C10_CancelledAfterWait ==
  (withCtx /\ gpc = "returned") => ctxDone

\* Wait returned on a group with a context whose functions all returned nil.
C10_Witness ==
  /\ withCtx /\ gpc = "returned" /\ ErrTasks = {} /\ Len(taskFns) >= 1 /\ ctxDone
\* The sum of GasUsed over receipts 1..k, as a mathematical integer.
RECURSIVE SumGasUsed(_, _)
SumGasUsed(rs, k) == IF k = 0 THEN 0 ELSE rs[k].GasUsed + SumGasUsed(rs, k - 1)

RECURSIVE SumGas(_, _)
SumGas(gas, k) == IF k = 0 THEN 0 ELSE gas[k] + SumGas(gas, k - 1)

\* C11: after processParallel returns without error, receipt k carries the
\* sum of GasUsed of receipts 1..k as CumulativeGasUsed, the last one is at
\* most the header gas limit, and the values are those the block's gas
\* inputs fix (whatever order the tasks completed in).
C11_CumulativeGas ==
  ReturnedOk =>
    /\ Len(ret.receipts) = Len(accessList)
    /\ \A k \in 1..Len(ret.receipts) :
         /\ ret.receipts[k].CumulativeGasUsed = SumGasUsed(ret.receipts, k)
         /\ ret.receipts[k].CumulativeGasUsed = SumGas(txGas, k)
         /\ ret.receipts[k].GasUsed = txGas[k]
    /\ TotalGas(ret.receipts) <= gasLimit

\* Transactions of different gas use, the first of them the last to run its
\* state operations, fill the gas limit exactly and processParallel returned.
C11_Witness ==
  /\ ReturnedOk
  /\ activeCtx = 1
  /\ \E i, j \in Tasks : txGas[i] # txGas[j]
  /\ TotalGas(ret.receipts) = gasLimit

\* C12: when every task succeeded and the receipts' GasUsed sum exceeds the
\* header gas limit, processParallel returns an error, no receipts, no logs,
\* and engine.Finalize was not invoked.
C12_GasOverflow ==
  (Returned /\ egErr = NoErr /\ SumGas(txGas, Len(accessList)) > gasLimit) =>
    /\ ret.err # NoErr
    /\ ret.receipts = <<>>
    /\ ret.logs = <<>>
    /\ ~ret.finalized

\* Every task succeeded, the gas sum is over the limit, and it returned.
C12_Witness ==
  /\ Returned /\ egErr = NoErr
  /\ \A t \in Tasks : receipts[t] # NoReceipt
  /\ SumGas(txGas, Len(accessList)) > gasLimit
  /\ ret.err = GasLimitErr

\* C13: after processParallel returns without error, position i holds the
\* receipt of transaction i (its TxHash), no position is nil, and the logs
\* returned are the transactions' logs concatenated in ascending position.
C13_BlockOrder ==
  ReturnedOk =>
    /\ Len(ret.receipts) = Len(accessList)
    /\ \A i \in 1..Len(ret.receipts) :
         /\ ret.receipts[i] # NoReceipt
         /\ ret.receipts[i].TxHash = i
         /\ ret.receipts[i].Logs = <<i>>
    /\ ret.logs = [i \in 1..Len(accessList) |-> i]

\* The first transaction ran its last state operation after the later ones,
\* and processParallel returned the receipts.
C13_Witness ==
  /\ ReturnedOk
  /\ Len(accessList) >= 2
  /\ activeCtx = 1
  /\ ret.logs = [i \in 1..Len(accessList) |-> i]
\* The amounts of the SubGas calls among callers 1..k that returned nil.
RECURSIVE SumReturnedNil(_)
SumReturnedNil(k) ==
  IF k = 0 THEN 0
  ELSE (IF pres[k] = "nil" THEN poolCalls[k].amount ELSE 0) + SumReturnedNil(k - 1)

OnlySubGas == \A c \in PoolCallers : poolCalls[c].op = "SubGas"

\* C14: with SubGas calls only, whatever their interleaving, the pool never
\* exceeds its initial value, never wraps below zero, and the initial value
\* minus the current value is the sum of the amounts of the SubGas calls
\* that returned nil (a sum that only grows, so the pool never increases).
C14_SubGasConserves ==
  OnlySubGas =>
    /\ gpGas \in 0..gpInit
    /\ gpInit - gpGas = SumReturnedNil(Len(poolCalls))

\* Two SubGas calls contend for the pool: one is served, one is refused.
C14_Witness ==
  /\ OnlySubGas
  /\ \A c \in PoolCallers : ppc[c] = "returned"
  /\ \E c, d \in PoolCallers :
       /\ pres[c] = "nil" /\ poolCalls[c].amount > 0
       /\ pres[d] = "ErrGasLimitReached" /\ poolCalls[d].amount <= gpInit

\* C15: SubGas(n) returns ErrGasLimitReached exactly when the pool holds
\* fewer than n units when the call examines it, and then leaves the pool
\* unchanged; otherwise it returns nil and the pool is exactly n lower.
C15_SubGasResult ==
  [][\A c \in PoolCallers :
       (poolCalls[c].op = "SubGas" /\ ppc[c] # "returned" /\ ppc'[c] = "returned") =>
         LET n == poolCalls[c].amount
         IN IF gpGas < n
            THEN pres'[c] = "ErrGasLimitReached" /\ gpGas' = gpGas
            ELSE pres'[c] = "nil" /\ gpGas' = gpGas - n]_vars

\* A SubGas call was refused while the pool held something.
C15_Witness ==
  \E c \in PoolCallers :
    /\ poolCalls[c].op = "SubGas" /\ pres[c] = "ErrGasLimitReached"
    /\ gpGas > 0 /\ gpGas = poolCalls[c].amount - 1

\* C16: AddGas(n) panics exactly when the value plus n exceeds 2^64-1, and
\* then leaves the value unchanged; otherwise the value is exactly n higher,
\* without wrapping.
C16_AddGasResult ==
  [][\A c \in PoolCallers :
       (poolCalls[c].op = "AddGas" /\ ppc[c] # "returned" /\ ppc'[c] = "returned") =>
         LET n == poolCalls[c].amount
         IN IF gpGas + n > MaxUint64
            THEN pres'[c] = "panic" /\ gpGas' = gpGas
            ELSE pres'[c] = "gp" /\ gpGas' = gpGas + n]_vars

\* An AddGas call panicked on a pool one unit short of overflowing.
C16_Witness ==
  \E c \in PoolCallers :
    /\ poolCalls[c].op = "AddGas" /\ pres[c] = "panic"
    /\ gpGas + poolCalls[c].amount = MaxUint64 + 1
    /\ gpGas > 0 /\ gpGas < MaxUint64
\* C17: while a store operation called through a view runs, that view holds
\* the shared mutex and the store's active context is that view's context.
C17_ContextHeld ==
  \A v \in Views : vpc[v] = "delegated" => (sharedLock = v /\ activeCtx = v)
\* Workers that are running a function, and those that were ever started.
Running == {w \in WorkerIds : wpc[w] = "run"}
Started == {w \in WorkerIds : wpc[w] # "unstarted"}

\* C18: with N workers and queue capacity K, at most N workers are ever
\* started (so at most N functions run at once), at most K functions wait in
\* the queue, and a Go call that finds the queue full returns only in a step
\* that has room in the queue or hands its function to a worker.
C18_Bounded ==
  /\ [](/\ workers <= numWorkers
        /\ workers = Cardinality(Started)
        /\ workerWG <= numWorkers
        /\ Cardinality(Running) <= numWorkers
        /\ Len(tasks) <= maxPending)
  /\ [][(gpc = "send" /\ gpc' # "send") =>
          \/ Len(tasks) < maxPending
          \/ \E w \in WorkerIds : wfn[w] = 0 /\ wfn'[w] = goIdx]_vars

\* Every worker is running a function, the queue is full, and Go is blocked
\* in its send.
C18_Witness ==
  /\ gpc = "send"
  /\ maxPending >= 1 /\ Len(tasks) = maxPending
  /\ workers = numWorkers
  /\ \A w \in WorkerIds : wpc[w] = "run"
\* C19: on the FIFOLocker with head h0 and reservations h1..hn, with one
\* task per hash doing Lock then Unlock, no run aborts or stops early, and
\* once all tasks are done the queue is empty and the head is hn.
C19_FinalState ==
  /\ ~aborted
  /\ (AllTasksDone \/ ENABLED NextLocker)
  /\ AllTasksDone =>
       /\ addressLocks["a1"].txQueue = <<>>
       /\ addressLocks["a1"].headTx = Len(accessList)

\* Transactions whose access lists share no address.
DisjointLists ==
  \A t, u \in Tasks : \A a \in Addrs : (Declares(t, a) /\ Declares(u, a)) => t = u

\* C20: when the transactions' address sets are pairwise disjoint, every
\* transaction is the head of each lock built for an address it names (all
\* of them, unless building the lock set panicked), no task is ever at a
\* per-hash gate, and a task entering Lock finds the lock's mutex free: so
\* Lock(tx) never blocks.
C20_DisjointNeverBlock ==
  DisjointLists =>
    \A t \in Tasks :
      /\ pc[t] # "lk_gate"
      /\ \A a \in Addrs :
           Declares(t, a) =>
             /\ addressLocks[a].exists => addressLocks[a].headTx = t
             /\ ~aborted => addressLocks[a].exists
      /\ (pc[t] = "lk_enter" /\ ~aborted) => ENABLED FLockAcquire(t)

\* Two transactions over different addresses have both locked and unlocked.
C20_Witness ==
  /\ DisjointLists
  /\ AllTasksDone
  /\ \E t, u \in Tasks : t # u /\ accessList[t] # <<>> /\ accessList[u] # <<>>
\* C21: a transaction that was not in the list the set was built from never
\* gets through Lock(tx) or Unlock(tx): it never completes its calls, is never
\* granted an address, never waits at a gate, and never reaches the part of
\* Unlock that rewrites head and queue.
C21_ForeignAborts ==
  driver = "ForeignTx" =>
    /\ pc[ForeignTx] \notin {"done", "lk_gate", "ul_head", "ul_queue", "ul_gate"}
    /\ \A a \in Addrs : \A k \in 1..Len(grants[a]) : grants[a][k] # ForeignTx

\* head, queue and gates of every lock are the same before and after the step
StructureUnchanged ==
  \A a \in Addrs : /\ addressLocks'[a].headTx = addressLocks[a].headTx
                   /\ addressLocks'[a].txQueue = addressLocks[a].txQueue
                   /\ addressLocks'[a].txLocks = addressLocks[a].txLocks

\* C27: Unlock(h) on a lock whose head is not h panics and leaves head, queue
\* and every gate as they were: the caller never gets past the head check, so
\* it never advances the queue.
C27_UnlockNotHead ==
  [][\A t \in Hashes :
       (t \in Tasks /\ ~aborted /\ pc[t] = "ul_check"
          /\ addressLocks[CurAddr(t)].headTx # t)
       => /\ pc'[t] = pc[t]
          /\ FUnlockCheck(t) => (aborted' /\ StructureUnchanged)]_vars

\* a transaction that is not the head called Unlock on a lock with a waiting
\* queue, and the call panicked
C27_Witness ==
  /\ driver = "ForeignTx" /\ aborted
  /\ pc[ForeignTx] = "ul_check"
  /\ LET f == addressLocks[CurAddr(ForeignTx)]
     IN f.exists /\ f.headTx # ForeignTx /\ Len(f.txQueue) > 0

\* Tasks inside the part of Unlock that moves the head of address a's lock.
Advancing(a) ==
  {b \in Tasks : pc[b] \in {"ul_head", "ul_queue", "ul_gate"} /\ CurAddr(b) = a}

\* Task t is inside Lock, waiting at its gate, and the gate is closed.
Blocked(t) == pc[t] = "lk_gate" /\ ~GateOpen(addressLocks[CurAddr(t)], t)

\* Whom a blocked task waits for: the head of the lock, or, while an Unlock
\* is moving the head, the transaction making that Unlock call.
WaitsFor(t) ==
  LET a == CurAddr(t)
  IN IF Advancing(a) # {} THEN Advancing(a) ELSE {addressLocks[a].headTx}

C23_UnlockPopsFront ==
  [][\A t \in Hashes :
       LET a == CurAddr(t)
           f == addressLocks[a]
           g == addressLocks'[a]
       IN /\ (FUnlockCheck(t) /\ f.headTx = t /\ Len(f.txQueue) = 0)
               => StructureUnchanged
          /\ FUnlockHead(t) => g.headTx = Head(f.txQueue)
          /\ FUnlockQueue(t) => (g.txQueue = Tail(f.txQueue) /\ g.headTx = Head(f.txQueue))
          /\ (FUnlockGate(t) /\ ~aborted') => g.txLocks[g.headTx] = "unlocked"]_vars

\* The hash has been granted address a's lock at some point.
Granted(a, h) == \E k \in 1..Len(grants[a]) : grants[a][k] = h

\* C24: in every state of a FIFOLocker outside an Unlock call that is moving
\* the head, the gate of every hash still in the queue is closed, and the only
\* hash not yet granted the lock whose gate is open is the head.
C24_OneGateOpen ==
  ~aborted =>
    \A a \in Addrs :
      LET f == addressLocks[a]
      IN (f.exists /\ Advancing(a) = {}) =>
           /\ \A k \in 1..Len(f.txQueue) : f.txLocks[f.txQueue[k]] = "locked"
           /\ \A h \in Hashes :
                (f.txLocks[h] = "unlocked" /\ ~Granted(a, h)) => h = f.headTx

\* No task has made a step since NewAccessListLocker ran.
NoTaskMoved ==
  /\ pc = [t \in Tasks |-> StartPc(accessList, variant, driver, t)]
  /\ idx = [t \in Tasks |-> IF Len(accessList[t]) = 0 THEN 0 ELSE 1]
  /\ \A a \in Addrs : grants[a] = <<>> /\ addressLocks[a].lock = NoTx

\* NewAccessListLocker has returned (it did not panic).
JustBuilt == ~aborted /\ NoTaskMoved

SetMin(S) == CHOOSE x \in S : \A y \in S : x <= y
Ascending(S) ==
  CHOOSE q \in [1..Cardinality(S) -> S] : \A i, j \in 1..Cardinality(S) : i < j => q[i] < q[j]

\* C25: after NewAccessListLocker(txs) there is a lock for exactly the
\* addresses some access list names; its head is the lowest-index transaction
\* naming the address, and its queue holds the other transactions naming it,
\* in ascending block order, each with a closed gate.
C25_BuiltLocks ==
  JustBuilt =>
    \A a \in Addrs :
      LET f == addressLocks[a]
          D == Declarers(a)
      IN /\ f.exists <=> D # {}
         /\ D # {} => /\ f.headTx = SetMin(D)
                       /\ f.txQueue = Ascending(D \ {SetMin(D)})
                       /\ \A h \in D \ {SetMin(D)} : f.txLocks[h] = "locked"

\* The first transaction naming address a names it more than once, so
\* NewAccessListLocker calls Reserve(h) on a lock whose head is h.
HeadReserved(a) ==
  /\ Declarers(a) # {}
  /\ \E j, k \in 1..Len(accessList[SetMin(Declarers(a))]) :
       /\ j # k
       /\ accessList[SetMin(Declarers(a))][j] = a
       /\ accessList[SetMin(Declarers(a))][k] = a

\* C26: Reserve(h) with h the head panics and leaves queue and gate table as
\* they were: when lock-set construction is over, a transaction that names an
\* address twice has made it abort, and no lock has its head's own hash in its
\* queue or a gate for it.
C26_ReserveHeadPanics ==
  NoTaskMoved =>
    \A a \in Addrs :
      LET f == addressLocks[a]
      IN /\ HeadReserved(a) => aborted
         /\ f.exists => /\ \A k \in 1..Len(f.txQueue) : f.txQueue[k] # f.headTx
                         /\ f.txLocks[f.headTx] = "none"

\* The task is at a read or write of head, queue or gate table.
TouchesStructure(t) == pc[t] \in {"lk_check", "ul_check", "ul_head", "ul_queue", "ul_gate"}

\* C28: a task reads or writes head, queue and gate table only while it holds
\* the locker's internal mutex, so Lock never reads the head while an Unlock
\* is between its writes of head and queue; a task waiting at a gate does not
\* hold the internal mutex.
C28_UnderMutex ==
  ~aborted =>
    /\ \A t \in Tasks : TouchesStructure(t) => addressLocks[CurAddr(t)].lock = t
    /\ \A t \in Tasks : pc[t] = "lk_gate" => addressLocks[CurAddr(t)].lock # t
    /\ \A t, u \in Tasks :
         (pc[t] = "lk_check" /\ pc[u] \in {"ul_head", "ul_queue"}) => CurAddr(t) # CurAddr(u)

\* Views with a state-store operation in progress.
InStore == {v \in Views : vpc[v] = "delegated"}

\* C29: every state-store operation a transaction makes through its view,
\* Finalise, GetLogs and TxIndex included, runs with the shared mutex held by
\* that view, so at most one state-store operation is in progress at a time.
C29_StoreSerialized ==
  /\ Cardinality(InStore) <= 1
  /\ \A v \in InStore : sharedLock = v

\* C30: after processParallel returns without error, the receipt at position
\* i carries transaction index i, whatever the interleaving of the tasks.
C30_ReceiptIndex ==
  ReturnedOk => \A i \in 1..Len(ret.receipts) : ret.receipts[i].TransactionIndex = i

C32_MutexOnlyInStore ==
  \A v \in Views : sharedLock = v => vpc[v] \in {"locked", "delegated"}

C34_CancelOnFirstError ==
  /\ [](withCtx /\ gerr # "nil" => ctxDone)
  /\ [](gpc = "returned" => ran = DOMAIN taskFns)
  /\ [][\A w \in 1..MaxWorkers :
          (w \in WorkerIds /\ wpc[w] = "run" /\ wpc'[w] # "run") => wfn[w] \in ran']_vars
  /\ [][\A k \in 1..Len(tasks) :
          \/ \E j \in 1..Len(tasks') : tasks'[j] = tasks[k]
          \/ \E u \in WorkerIds : wfn'[u] = tasks[k]]_vars

\* the context was cancelled by a task's error before Wait was called, while
\* another function is running and one more is being submitted
C34_Witness ==
  /\ withCtx /\ ctxDone /\ gpc = "send"
  /\ \E w \in WorkerIds : wpc[w] = "run"

\* The transaction's task has not been taken from the queue by any worker.
NotTaken(b) == b \in Tasks /\ pc[b] = "queued" /\ \A w \in WorkerIds : wfn[w] # b

\* C35: with the transaction tasks handed in block order to a BoundedGroup of
\* fewer workers than transactions, no run aborts or stops before Wait has
\* returned, and a task blocked at a gate never waits for a transaction that
\* no worker has started.
C35_NoPoolDeadlock ==
  driver = "BoundedTx" =>
    /\ ~aborted
    /\ gpc = "returned" \/ ENABLED NextBoundedTx
    /\ \A t \in Tasks : Blocked(t) => \A b \in WaitsFor(t) : ~NotTaken(b)

\* C36: a transaction task that has returned from txLocker.Lock(tx) calls
\* txLocker.Unlock(tx) before it ends: it never goes from holding its locks
\* to its end in one step, and a finished task is never the head of a lock
\* that still has transactions queued.
C36_UnlockOnEveryPath ==
  /\ [][\A t \in Hashes :
          (t \in Tasks /\ Holding(t)) => pc'[t] # "done"]_vars
  /\ [](\A a \in Addrs : \A t \in Tasks :
          (pc[t] = "done" /\ addressLocks[a].exists /\ addressLocks[a].headTx = t)
          => Len(addressLocks[a].txQueue) = 0)

\* C37: Err is written at most once (a stored error is never replaced), no
\* Add call ends in a fatal unlock, and when every Add has returned the
\* read-write mutex is free: no read lock and no write lock is left held.
C37_FirstErrorKept ==
  /\ [][errsErr # "nil" => errsErr' = errsErr]_vars
  /\ [](~rwFatal)
  /\ []((\A c \in AddCallers : apc[c] = "returned") => (rwReaders = 0 /\ rwWriter = NoTx))
====
